---- MODULE Spec2Model ----
(***************************************************************************)
(* Model of training/gr00t/finetune_gr00t.py: the FinetuneWorkflow class   *)
(* (environment-driven parameter resolution, dataset validation, the       *)
(* single-/multi-process decision of run_training, and the hand-off to the *)
(* trainer), run by a parent process and by the workers that torchrun      *)
(* starts from the same script.                                            *)
(* A second part models infra/app.py with the BatchStack and DcvStack it   *)
(* constructs.                                                             *)
(***************************************************************************)
EXTENDS Integers, Sequences, FiniteSets, TLC

VARIABLES
    pc,         \* pc[p]: position of process p in main()/run_workflow()
    env,        \* env[p]: os.environ of process p (a partial function name -> string)
    cfg,        \* cfg[p]: the attributes of the FinetuneWorkflow object of p
    fs,         \* the file system: path -> node
    gpus,       \* torch.cuda.device_count() of the machine
    exitCode,   \* exitCode[p]: exit status of p (-1 while p has not exited)
    raised,     \* raised[p]: the exception that ended the workflow of p, or NoExc
    log,        \* log[p]: records written by p through logger.warning / logger.error
    steps,      \* steps[p]: the workflow steps p has entered, in order
    writes,     \* file-system changes so far: <<process, call, path>>
    targs,      \* targs[p]: the TrainingArguments p has built, or NoArgs
    model,      \* model[p]: the model p has prepared for the trainer, or NoModel
    launcher,   \* launcher[p]: state of the torchrun call made by p
    reads,      \* reads[p]: the reads of os.environ p has made: <<step, name>>
    calls,      \* calls[p]: which of _train_once and torchrun p has called
    runs,       \* number of validate_dataset calls (used by SpecDataset only)
    cdk         \* the CDK app of infra/app.py: its inputs, position and stacks

vars == <<pc, env, cfg, fs, gpus, exitCode, raised, log, steps, writes, targs, model, launcher, reads, calls, runs, cdk>>

----------------------------------------------------------------------------
(* Bounds                                                                   *)

\* largest torch.cuda.device_count() considered; also the number of workers
MaxGpus == 2

\* number of validate_dataset calls made in a row by SpecDataset
MaxRuns == 2

\* largest number of optional variables set at once in SpecConfig
MaxOverrides == 2

----------------------------------------------------------------------------
(* Processes                                                                *)

Parent == <<"parent", 0>>

Worker(i) == <<"worker", i>>

Workers == {Worker(i) : i \in 1..MaxGpus}

Procs == {Parent} \cup Workers

----------------------------------------------------------------------------
(* Python values                                                            *)

\* Python's None: a value that is none of the strings the environment holds
None == "<None>"

\* no exception
NoExc == [type |-> "", msg |-> "", names |-> <<>>]

Exc(type, msg) == [type |-> type, msg |-> msg, names |-> <<>>]

\* integers whose decimal literal int() is given in this model
IntRange == ((-1)..(MaxGpus + 1)) \cup {4, 8, 16, 32, 100, 2000, 6000}

\* str -> int as int() computes it on a decimal literal
CanInt(s) == \E n \in IntRange : ToString(n) = s

IntOf(s) == CHOOSE n \in IntRange : ToString(n) = s

\* float literals float() is given in this model, with their value in units of 1e-5
FloatLiterals == {"1e-4", "1e-5", "0.05", "0.1", "0", "-0.1"}

CanFloat(s) == s \in FloatLiterals \/ CanInt(s)

FloatOf(s) ==
    CASE s = "1e-4" -> 10
      [] s = "1e-5" -> 1
      [] s = "0.05" -> 5000
      [] s = "0.1" -> 10000
      [] s = "0" -> 0
      [] s = "-0.1" -> -10000
      [] OTHER -> IntOf(s) * 100000

\* str.lower() on the strings of the model
lower(s) ==
    CASE s = "TRUE" -> "true"
      [] s = "True" -> "true"
      [] s = "FALSE" -> "false"
      [] s = "False" -> "false"
      [] OTHER -> s

\* os.getenv(name, default)
getenv(e, name, default) == IF name \in DOMAIN e THEN e[name] ELSE default

\* os.environ[name] = value
setenv(e, name, value) == [n \in (DOMAIN e) \cup {name} |-> IF n = name THEN value ELSE e[n]]

\* del os.environ[name]
delenv(e, name) == [n \in (DOMAIN e) \ {name} |-> e[n]]

\* a truth value that takes only None as false
Truthy_is_not_None(v) == v # None

\* truth value of an Optional[str]: None and "" are false
Truthy(v) == v # None /\ v # ""

----------------------------------------------------------------------------
(* File system                                                              *)

DatasetDir == "/data/x"

MetaDir == "/data/x/meta"

ModalityJson == "/data/x/meta/modality.json"

EpisodeData == "/data/x/data"

Workspace == "/workspace"

DefaultOutputDir == "/workspace/checkpoints"

Paths == {DatasetDir, MetaDir, ModalityJson, EpisodeData, Workspace, DefaultOutputDir}

\* os.path.dirname for the paths of the model ("/" and "/data" always exist)
dirname(p) ==
    CASE p = MetaDir -> DatasetDir
      [] p = ModalityJson -> MetaDir
      [] p = EpisodeData -> DatasetDir
      [] p = DefaultOutputDir -> Workspace
      [] OTHER -> "/"

\* file contents are JSON documents; <<>> is the empty document
Absent == [kind |-> "absent", content |-> <<>>]

Dir == [kind |-> "dir", content |-> <<>>]

File(c) == [kind |-> "file", content |-> c]

isdir(f, p) == p \in Paths /\ f[p].kind = "dir"

\* an isfile that finds no file
isfile_never(f, p) == FALSE

isfile(f, p) == p \in Paths /\ f[p].kind = "file"

exists(f, p) == p \in Paths /\ f[p].kind # "absent"

listdir(f, d) == {p \in Paths : dirname(p) = d /\ f[p].kind # "absent"}

----------------------------------------------------------------------------
(* FinetuneWorkflow.__init__ and _validate_parameters                       *)

\* the numeric variables in the order the constructor converts them
NumericVars == <<
    [name |-> "MAX_STEPS", kind |-> "int", default |-> "6000"],
    [name |-> "SAVE_STEPS", kind |-> "int", default |-> "2000"],
    [name |-> "NUM_GPUS", kind |-> "int", default |-> "1"],
    [name |-> "BATCH_SIZE", kind |-> "int", default |-> "32"],
    [name |-> "LEARNING_RATE", kind |-> "float", default |-> "1e-4"],
    [name |-> "LORA_RANK", kind |-> "int", default |-> "0"],
    [name |-> "LORA_ALPHA", kind |-> "int", default |-> "16"],
    [name |-> "LORA_DROPOUT", kind |-> "float", default |-> "0.1"],
    [name |-> "WEIGHT_DECAY", kind |-> "float", default |-> "1e-5"],
    [name |-> "WARMUP_RATIO", kind |-> "float", default |-> "0.05"],
    [name |-> "DATALOADER_NUM_WORKERS", kind |-> "int", default |-> "8"],
    [name |-> "DATALOADER_PREFETCH_FACTOR", kind |-> "int", default |-> "4"] >>

\* the conversions of the constructor that raise ValueError, in order
BadNumeric(e) ==
    SelectSeq(NumericVars,
              LAMBDA v : IF v.kind = "int"
                         THEN ~CanInt(getenv(e, v.name, v.default))
                         ELSE ~CanFloat(getenv(e, v.name, v.default)))

EnvInt(e, name, default) == IntOf(getenv(e, name, default))

EnvFloat(e, name, default) == FloatOf(getenv(e, name, default))

\* a flag conversion that compares without .lower()
EnvBool_case_sensitive(e, name, default) == getenv(e, name, default) = "true"

EnvBool(e, name, default) == lower(getenv(e, name, default)) = "true"

\* the attributes the constructor assigns (lines 44-84), all conversions succeeding
Attributes(e) ==
    [ dataset_local_dir |-> getenv(e, "DATASET_LOCAL_DIR", None),
      output_dir |-> getenv(e, "OUTPUT_DIR", DefaultOutputDir),
      max_steps |-> EnvInt(e, "MAX_STEPS", "6000"),
      save_steps |-> EnvInt(e, "SAVE_STEPS", "2000"),
      num_gpus |-> EnvInt(e, "NUM_GPUS", "1"),
      data_config |-> getenv(e, "DATA_CONFIG", "so100_dualcam"),
      video_backend |-> getenv(e, "VIDEO_BACKEND", "torchvision_av"),
      batch_size |-> EnvInt(e, "BATCH_SIZE", "32"),
      learning_rate |-> EnvFloat(e, "LEARNING_RATE", "1e-4"),
      base_model_path |-> getenv(e, "BASE_MODEL_PATH", "nvidia/GR00T-N1.5-3B"),
      embodiment_tag |-> getenv(e, "EMBODIMENT_TAG", "new_embodiment"),
      report_to |-> getenv(e, "REPORT_TO", "tensorboard"),
      tune_llm |-> EnvBool(e, "TUNE_LLM", "false"),
      tune_visual |-> EnvBool(e, "TUNE_VISUAL", "false"),
      tune_projector |-> EnvBool(e, "TUNE_PROJECTOR", "true"),
      tune_diffusion_model |-> EnvBool(e, "TUNE_DIFFUSION_MODEL", "true"),
      lora_rank |-> EnvInt(e, "LORA_RANK", "0"),
      lora_alpha |-> EnvInt(e, "LORA_ALPHA", "16"),
      lora_dropout |-> EnvFloat(e, "LORA_DROPOUT", "0.1"),
      weight_decay |-> EnvFloat(e, "WEIGHT_DECAY", "1e-5"),
      warmup_ratio |-> EnvFloat(e, "WARMUP_RATIO", "0.05"),
      dataloader_num_workers |-> EnvInt(e, "DATALOADER_NUM_WORKERS", "8"),
      dataloader_prefetch_factor |-> EnvInt(e, "DATALOADER_PREFETCH_FACTOR", "4"),
      balance_dataset_weights |-> EnvBool(e, "BALANCE_DATASET_WEIGHTS", "true"),
      balance_trajectory_weights |-> EnvBool(e, "BALANCE_TRAJECTORY_WEIGHTS", "true"),
      lora_full_model |-> EnvBool(e, "LORA_FULL_MODEL", "false"),
      resume |-> EnvBool(e, "RESUME", "false") ]

\* the object before the constructor has run
NoConfig ==
    [ dataset_local_dir |-> None, output_dir |-> "", max_steps |-> 0, save_steps |-> 0,
      num_gpus |-> 0, data_config |-> "", video_backend |-> "", batch_size |-> 0,
      learning_rate |-> 0, base_model_path |-> "", embodiment_tag |-> "", report_to |-> "",
      tune_llm |-> FALSE, tune_visual |-> FALSE, tune_projector |-> FALSE,
      tune_diffusion_model |-> FALSE, lora_rank |-> 0, lora_alpha |-> 0, lora_dropout |-> 0,
      weight_decay |-> 0, warmup_ratio |-> 0, dataloader_num_workers |-> 0,
      dataloader_prefetch_factor |-> 0, balance_dataset_weights |-> FALSE,
      balance_trajectory_weights |-> FALSE, lora_full_model |-> FALSE, resume |-> FALSE ]

\* required_params of _validate_parameters, in dict order
required_params(self) ==
    << [param |-> "DATASET_LOCAL_DIR", value |-> self.dataset_local_dir] >>

\* [param for param, value in required_params.items() if not value]
missing_params(self) ==
    LET sel == SelectSeq(required_params(self), LAMBDA r : ~Truthy(r.value))
    IN  [i \in 1..Len(sel) |-> sel[i].param]

valid_data_configs ==
    {"so100_dualcam", "fourier_gr1_arms_only", "fourier_gr1_arms_waist",
     "agibot_genie1_dualcam", "oxe_droid_single_cam"}

valid_embodiment_tags == {"new_embodiment", "gr1", "oxe_droid", "agibot_genie1"}

Warning(msg, arg) == [level |-> "WARNING", msg |-> msg, arg |-> arg]

\* logger.error(f"Workflow failed: {str(e)}")
Error(exc) == [level |-> "ERROR", msg |-> "Workflow failed", exc |-> exc]

\* the traceback the interpreter prints for an exception nothing catches
Traceback(exc) == [level |-> "TRACEBACK", msg |-> "Traceback (most recent call last)", exc |-> exc]

\* a _validate_parameters that rejects a data_config outside the known set
validate_parameters_strict(self) ==
    IF missing_params(self) # <<>>
    THEN [exc |-> [type |-> "ValueError",
                   msg |-> "Missing required environment variables",
                   names |-> missing_params(self)],
          log |-> <<>>]
    ELSE IF self.data_config \notin valid_data_configs
    THEN [exc |-> Exc("ValueError", "Data config may not be supported"), log |-> <<>>]
    ELSE [exc |-> NoExc,
          log |-> IF self.embodiment_tag \notin valid_embodiment_tags
                  THEN <<Warning("Embodiment tag may not be supported", self.embodiment_tag)>>
                  ELSE <<>>]

\* _validate_parameters: the exception it raises (or NoExc) and what it logs
validate_parameters(self) ==
    IF missing_params(self) # <<>>
    THEN [exc |-> [type |-> "ValueError",
                   msg |-> "Missing required environment variables",
                   names |-> missing_params(self)],
          log |-> <<>>]
    ELSE [exc |-> NoExc,
          log |-> (IF self.data_config \notin valid_data_configs
                   THEN <<Warning("Data config may not be supported", self.data_config)>>
                   ELSE <<>>)
                  \o (IF self.embodiment_tag \notin valid_embodiment_tags
                      THEN <<Warning("Embodiment tag may not be supported", self.embodiment_tag)>>
                      ELSE <<>>)]

\* FinetuneWorkflow(): the object, the exception raised (or NoExc) and what is logged
FinetuneWorkflow(e) ==
    IF BadNumeric(e) # <<>>
    THEN [self |-> NoConfig,
          exc |-> Exc("ValueError", IF BadNumeric(e)[1].kind = "int"
                                    THEN "invalid literal for int()"
                                    ELSE "could not convert string to float"),
          log |-> <<>>]
    ELSE [self |-> Attributes(e),
          exc |-> validate_parameters(Attributes(e)).exc,
          log |-> validate_parameters(Attributes(e)).log]

----------------------------------------------------------------------------
(* os.makedirs, open(.., "w") + json.dump                                   *)

\* os.makedirs(path, exist_ok=True) on a path at most two levels below an
\* existing directory: the exception (or NoExc), the file system afterwards
\* and the directories created, outermost first
makedirs(f, path) ==
    LET head == dirname(path)
        up == IF head \in Paths /\ ~exists(f, head)
              THEN IF dirname(head) \in Paths /\ ~isdir(f, dirname(head))
                   THEN [exc |-> Exc("FileNotFoundError", head), fs |-> f, created |-> <<>>]
                   ELSE [exc |-> NoExc, fs |-> [f EXCEPT ![head] = Dir], created |-> <<head>>]
              ELSE [exc |-> NoExc, fs |-> f, created |-> <<>>]
    IN  IF path \notin Paths
        THEN [exc |-> Exc("FileNotFoundError", path), fs |-> f, created |-> <<>>]
        ELSE IF up.exc # NoExc
        THEN up
        ELSE IF isdir(up.fs, path)
        THEN [exc |-> NoExc, fs |-> up.fs, created |-> up.created]
        ELSE IF isfile(up.fs, path)
        THEN [exc |-> Exc("FileExistsError", path), fs |-> up.fs, created |-> up.created]
        ELSE IF head \in Paths /\ ~isdir(up.fs, head)
        THEN [exc |-> Exc("NotADirectoryError", path), fs |-> up.fs, created |-> up.created]
        ELSE [exc |-> NoExc, fs |-> [up.fs EXCEPT ![path] = Dir],
              created |-> Append(up.created, path)]

\* json.dump(obj, f, indent=4): the text written, as its layout and its document
json_dump(obj) == [indent |-> 4, doc |-> obj]

\* with open(path, "w") as f: json.dump(obj, f, indent=4)
open_w_dump(f, path, obj) ==
    IF isdir(f, path)
    THEN [exc |-> Exc("IsADirectoryError", path), fs |-> f, written |-> <<>>]
    ELSE IF ~isdir(f, dirname(path))
    THEN [exc |-> Exc("FileNotFoundError", path), fs |-> f, written |-> <<>>]
    ELSE [exc |-> NoExc, fs |-> [f EXCEPT ![path] = File(json_dump(obj))],
          written |-> <<path>>]

----------------------------------------------------------------------------
(* FinetuneWorkflow.validate_dataset                                        *)

\* os.path.join(a, b)
join(a, b) ==
    CASE a = DatasetDir /\ b = "meta" -> MetaDir
      [] a = MetaDir /\ b = "modality.json" -> ModalityJson
      [] OTHER -> "<elsewhere>"

\* a modality_content with the gripper one channel further
modality_content_shifted ==
    [ state |-> [single_arm |-> [start |-> 0, end |-> 5],
                 gripper |-> [start |-> 6, end |-> 7]],
      action |-> [single_arm |-> [start |-> 0, end |-> 5],
                  gripper |-> [start |-> 6, end |-> 7]],
      video |-> [wrist |-> [original_key |-> "observation.images.wrist"],
                 front |-> [original_key |-> "observation.images.front"]],
      annotation |-> ("human.task_description" :> [original_key |-> "task_index"]) ]

modality_content ==
    [ state |-> [single_arm |-> [start |-> 0, end |-> 5],
                 gripper |-> [start |-> 5, end |-> 6]],
      action |-> [single_arm |-> [start |-> 0, end |-> 5],
                  gripper |-> [start |-> 5, end |-> 6]],
      video |-> [wrist |-> [original_key |-> "observation.images.wrist"],
                 front |-> [original_key |-> "observation.images.front"]],
      annotation |-> ("human.task_description" :> [original_key |-> "task_index"]) ]

\* a needs_modality that holds of every data_config
needs_modality_any(self) == TRUE

\* the data_config whose modality.json validate_dataset creates
needs_modality(self) == self.data_config = "so100_dualcam"

NotPrepared == Exc("RuntimeError", "Dataset directory not prepared")

\* an ensure_modality that looks for modality.json in the dataset directory
\* itself, where it never is
ensure_modality_wrong_path(self, f) ==
    LET meta_dir == join(self.dataset_local_dir, "meta")
        modality_json_path == join(meta_dir, "modality.json")
        mk == makedirs(f, meta_dir)
        wr == open_w_dump(mk.fs, modality_json_path, modality_content)
    IN  IF needs_modality(self) /\ ~isfile(f, join(self.dataset_local_dir, "modality.json"))
        THEN IF mk.exc # NoExc
             THEN [exc |-> mk.exc, fs |-> mk.fs, wrote |-> mk.created, log |-> <<>>]
             ELSE [exc |-> wr.exc, fs |-> wr.fs, wrote |-> mk.created \o wr.written,
                   log |-> <<>>]
        ELSE [exc |-> NoExc, fs |-> f, wrote |-> <<>>, log |-> <<>>]

\* an ensure_modality that writes the file whether or not it is there
ensure_modality_overwrites(self, f) ==
    LET meta_dir == join(self.dataset_local_dir, "meta")
        modality_json_path == join(meta_dir, "modality.json")
        mk == makedirs(f, meta_dir)
        wr == open_w_dump(mk.fs, modality_json_path, modality_content)
    IN  IF needs_modality(self)
        THEN IF mk.exc # NoExc
             THEN [exc |-> mk.exc, fs |-> mk.fs, wrote |-> mk.created, log |-> <<>>]
             ELSE [exc |-> wr.exc, fs |-> wr.fs, wrote |-> mk.created \o wr.written,
                   log |-> <<>>]
        ELSE [exc |-> NoExc, fs |-> f, wrote |-> <<>>, log |-> <<>>]

\* lines 134-162 of validate_dataset: create meta/modality.json when the
\* data_config needs it and it is not a file yet
ensure_modality(self, f) ==
    LET meta_dir == join(self.dataset_local_dir, "meta")
        modality_json_path == join(meta_dir, "modality.json")
        mk == makedirs(f, meta_dir)
        wr == open_w_dump(mk.fs, modality_json_path, modality_content)
    IN  IF needs_modality(self) /\ ~isfile(f, modality_json_path)
        THEN IF mk.exc # NoExc
             THEN [exc |-> mk.exc, fs |-> mk.fs, wrote |-> mk.created, log |-> <<>>]
             ELSE [exc |-> wr.exc, fs |-> wr.fs, wrote |-> mk.created \o wr.written,
                   log |-> <<>>]
        ELSE [exc |-> NoExc, fs |-> f, wrote |-> <<>>, log |-> <<>>]

EmptyWarning(self) == <<Warning("DATASET_LOCAL_DIR is provided but empty", self.dataset_local_dir)>>

\* a validate_dataset that does not look into the directory
validate_dataset_accepts_empty(self, e, f) ==
    IF "DATASET_LOCAL_DIR" \in DOMAIN e /\ isdir(f, self.dataset_local_dir)
    THEN ensure_modality(self, f)
    ELSE [exc |-> NotPrepared, fs |-> f, wrote |-> <<>>, log |-> <<>>]

\* a validate_dataset that creates the directory it does not find
validate_dataset_creates_dir(self, e, f) ==
    IF "DATASET_LOCAL_DIR" \in DOMAIN e /\ isdir(f, self.dataset_local_dir)
    THEN IF listdir(f, self.dataset_local_dir) # {}
         THEN ensure_modality(self, f)
         ELSE [exc |-> NotPrepared, fs |-> f, wrote |-> <<>>, log |-> EmptyWarning(self)]
    ELSE [exc |-> NotPrepared, fs |-> makedirs(f, self.dataset_local_dir).fs,
          wrote |-> makedirs(f, self.dataset_local_dir).created, log |-> <<>>]

\* validate_dataset: the exception raised (or NoExc), the file system
\* afterwards, the paths created or written, and the warnings logged
validate_dataset(self, e, f) ==
    IF "DATASET_LOCAL_DIR" \in DOMAIN e /\ isdir(f, self.dataset_local_dir)
    THEN IF listdir(f, self.dataset_local_dir) # {}
         THEN ensure_modality(self, f)
         ELSE [exc |-> NotPrepared, fs |-> f, wrote |-> <<>>, log |-> EmptyWarning(self)]
    ELSE [exc |-> NotPrepared, fs |-> f, wrote |-> <<>>, log |-> <<>>]

----------------------------------------------------------------------------
(* FinetuneWorkflow.run_training up to the call of _train_once or torchrun  *)

\* torch.cuda.device_count() if torch.cuda.is_available() else 1
available_gpus(n) == IF n > 0 THEN n ELSE 1

\* a plan that launches with the CUDA_VISIBLE_DEVICES of the caller
plan_keeps_devices(self, e) ==
    IF self.num_gpus = 1
    THEN [kind |-> "Direct", env |-> setenv(e, "CUDA_VISIBLE_DEVICES", "0")]
    ELSE IF getenv(e, "IS_TORCHRUN", "0") = "1"
    THEN [kind |-> "Direct", env |-> e]
    ELSE [kind |-> "Spawn", env |-> setenv(e, "IS_TORCHRUN", "1")]

\* a plan without the single-GPU branch
plan_spawns_single(self, e) ==
    IF getenv(e, "IS_TORCHRUN", "0") = "1"
    THEN [kind |-> "Direct", env |-> e]
    ELSE [kind |-> "Spawn", env |-> setenv(delenv(e, "CUDA_VISIBLE_DEVICES"), "IS_TORCHRUN", "1")]

\* a plan that does not look at IS_TORCHRUN
plan_ignores_marker(self, e) ==
    IF self.num_gpus = 1
    THEN [kind |-> "Direct", env |-> setenv(e, "CUDA_VISIBLE_DEVICES", "0")]
    ELSE [kind |-> "Spawn", env |-> setenv(delenv(e, "CUDA_VISIBLE_DEVICES"), "IS_TORCHRUN", "1")]

\* a plan that does not set IS_TORCHRUN before the launch
plan_no_marker(self, e) ==
    IF self.num_gpus = 1
    THEN [kind |-> "Direct", env |-> setenv(e, "CUDA_VISIBLE_DEVICES", "0")]
    ELSE IF getenv(e, "IS_TORCHRUN", "0") = "1"
    THEN [kind |-> "Direct", env |-> e]
    ELSE [kind |-> "Spawn", env |-> delenv(e, "CUDA_VISIBLE_DEVICES")]

\* the environment after the branch of lines 354-379, and the branch taken
plan(self, e) ==
    IF self.num_gpus = 1
    THEN [kind |-> "Direct", env |-> setenv(e, "CUDA_VISIBLE_DEVICES", "0")]
    ELSE IF getenv(e, "IS_TORCHRUN", "0") = "1"
    THEN [kind |-> "Direct", env |-> e]
    ELSE [kind |-> "Spawn", env |-> setenv(delenv(e, "CUDA_VISIBLE_DEVICES"), "IS_TORCHRUN", "1")]

\* a run_training that does not create the output directory
run_training_no_makedirs(self, e, f, n) ==
    IF ~(self.num_gpus <= available_gpus(n))
    THEN [exc |-> Exc("AssertionError", "Number of GPUs requested is greater than the available GPUs"),
          fs |-> f, env |-> e, kind |-> "", created |-> <<>>]
    ELSE IF ~(self.num_gpus > 0)
    THEN [exc |-> Exc("AssertionError", "Number of GPUs must be greater than 0"),
          fs |-> f, env |-> e, kind |-> "", created |-> <<>>]
    ELSE [exc |-> NoExc, fs |-> f, env |-> plan(self, e).env,
          kind |-> plan(self, e).kind, created |-> <<>>]

\* a run_training without the assertion that num_gpus is positive
run_training_no_positive_assert(self, e, f, n) ==
    LET mk == makedirs(f, self.output_dir)
    IN  IF mk.exc # NoExc
        THEN [exc |-> mk.exc, fs |-> mk.fs, env |-> e, kind |-> "", created |-> mk.created]
        ELSE IF ~(self.num_gpus <= available_gpus(n))
        THEN [exc |-> Exc("AssertionError", "Number of GPUs requested is greater than the available GPUs"),
              fs |-> mk.fs, env |-> e, kind |-> "", created |-> mk.created]
        ELSE [exc |-> NoExc, fs |-> mk.fs, env |-> plan(self, e).env,
              kind |-> plan(self, e).kind, created |-> mk.created]

\* run_training before it trains or launches: the exception raised (or
\* NoExc), the file system and environment afterwards, the branch taken
run_training(self, e, f, n) ==
    LET mk == makedirs(f, self.output_dir)
    IN  IF mk.exc # NoExc
        THEN [exc |-> mk.exc, fs |-> mk.fs, env |-> e, kind |-> "", created |-> mk.created]
        ELSE IF ~(self.num_gpus <= available_gpus(n))
        THEN [exc |-> Exc("AssertionError", "Number of GPUs requested is greater than the available GPUs"),
              fs |-> mk.fs, env |-> e, kind |-> "", created |-> mk.created]
        ELSE IF ~(self.num_gpus > 0)
        THEN [exc |-> Exc("AssertionError", "Number of GPUs must be greater than 0"),
              fs |-> mk.fs, env |-> e, kind |-> "", created |-> mk.created]
        ELSE [exc |-> NoExc, fs |-> mk.fs, env |-> plan(self, e).env,
              kind |-> plan(self, e).kind, created |-> mk.created]

\* no model loaded yet
NoModel == [loaded |-> FALSE, lora |-> FALSE]

\* GR00T_N1_5.from_pretrained(...) with the tune_* flags of self
from_pretrained(self) ==
    [ loaded |-> TRUE, lora |-> FALSE,
      base_model_path |-> self.base_model_path,
      tune_llm |-> self.tune_llm, tune_visual |-> self.tune_visual,
      tune_projector |-> self.tune_projector,
      tune_diffusion_model |-> self.tune_diffusion_model ]

\* get_lora_model(model, rank, lora_alpha, lora_dropout, action_head_only)
get_lora_model(m, rank, lora_alpha, lora_dropout, action_head_only) ==
    [ loaded |-> TRUE, lora |-> TRUE, base |-> m, rank |-> rank, lora_alpha |-> lora_alpha,
      lora_dropout |-> lora_dropout, action_head_only |-> action_head_only ]

\* a model preparation that wraps whenever lora_rank is not zero
prepare_model_nonzero(self) ==
    IF self.lora_rank # 0
    THEN get_lora_model(from_pretrained(self), self.lora_rank, self.lora_alpha,
                        self.lora_dropout, ~self.lora_full_model)
    ELSE from_pretrained(self)

\* the model _train_once hands to TrainRunner (lines 231-287)
prepare_model(self) ==
    IF self.lora_rank > 0
    THEN get_lora_model(from_pretrained(self), self.lora_rank, self.lora_alpha,
                        self.lora_dropout, ~self.lora_full_model)
    ELSE from_pretrained(self)

\* TrainingArguments with learning_rate and weight_decay passed in each other's place
TrainingArguments_swapped(self) ==
    [ output_dir |-> self.output_dir,
      per_device_train_batch_size |-> self.batch_size,
      dataloader_num_workers |-> self.dataloader_num_workers,
      dataloader_prefetch_factor |-> self.dataloader_prefetch_factor,
      dataloader_persistent_workers |-> self.dataloader_num_workers > 0,
      learning_rate |-> self.weight_decay,
      weight_decay |-> self.learning_rate,
      warmup_ratio |-> self.warmup_ratio,
      max_steps |-> self.max_steps,
      save_steps |-> self.save_steps,
      report_to |-> self.report_to,
      seed |-> 42 ]

\* TrainingArguments(...) of _train_once, the arguments taken from self and the seed
TrainingArguments(self) ==
    [ output_dir |-> self.output_dir,
      per_device_train_batch_size |-> self.batch_size,
      dataloader_num_workers |-> self.dataloader_num_workers,
      dataloader_prefetch_factor |-> self.dataloader_prefetch_factor,
      dataloader_persistent_workers |-> self.dataloader_num_workers > 0,
      learning_rate |-> self.learning_rate,
      weight_decay |-> self.weight_decay,
      warmup_ratio |-> self.warmup_ratio,
      max_steps |-> self.max_steps,
      save_steps |-> self.save_steps,
      report_to |-> self.report_to,
      seed |-> 42 ]

NoArgs == <<>>

----------------------------------------------------------------------------
(* torchrun as seen by the parent                                           *)

\* e.code of a SystemExit
ExitCodes ==
    {[type |-> "int", int |-> n] : n \in 0..2}
    \cup {[type |-> "NoneType", int |-> 0], [type |-> "str", int |-> 0]}

\* how torchrun(args=args) can end
LauncherOutcomes ==
    {[kind |-> "return", code |-> [type |-> "NoneType", int |-> 0]],
     [kind |-> "Exception", code |-> [type |-> "NoneType", int |-> 0]]}
    \cup {[kind |-> "SystemExit", code |-> c] : c \in ExitCodes}

\* the exit status the interpreter gives a process that ends with sys.exit(code)
StatusOfExit(c) ==
    CASE c.type = "int" -> c.int
      [] c.type = "NoneType" -> 0
      [] OTHER -> 1

\* code = e.code if isinstance(e.code, int) else 0
propagated_code(c) == IF c.type = "int" THEN c.int ELSE 0

NoLauncher == [state |-> "idle", nproc |-> 0, started |-> {},
               outcome |-> [kind |-> "", code |-> [type |-> "NoneType", int |-> 0]]]

----------------------------------------------------------------------------
(* Strings of the CDK app, as sequences of characters and literal pieces    *)

\* Python's None among these strings
NoValue == <<"<None>">>

\* bool(v) is False: None and ""
Falsy(v) == v = NoValue \/ v = <<>>

\* a or b
py_or(a, b) == IF Falsy(a) THEN b ELSE a

\* s.startswith(prefix)
startswith(s, prefix) == Len(s) >= Len(prefix) /\ SubSeq(s, 1, Len(prefix)) = prefix

\* s[n:]
drop(s, n) == SubSeq(s, n + 1, Len(s))

\* c in s
contains(s, c) == \E i \in 1..Len(s) : s[i] = c

\* s.split(c, 1), for a c that s contains
split_once(s, c) ==
    LET i == CHOOSE j \in 1..Len(s) : s[j] = c /\ \A k \in 1..(j - 1) : s[k] # c
    IN  <<SubSeq(s, 1, i - 1), SubSeq(s, i + 1, Len(s))>>

S3Scheme == <<"s", "3", ":", "/", "/">>

\* f"arn:aws:s3:::{bucket}"
BucketArn(bucket) == <<"arn:aws:s3:::">> \o bucket

----------------------------------------------------------------------------
(* BatchStack.__init__                                                      *)

\* iam.PolicyStatement(actions=..., resources=...)
PolicyStatement(actions, resources) == [actions |-> actions, resources |-> resources]

\* the names CloudFormation resolves for what the stack creates
CreatedVpc == <<"${BatchVPC}">>

CreatedEfs == <<"${BatchEFS}">>

CreatedEfsSg == <<"${BatchEFSSecurityGroup}">>

CreatedBucket == <<"${IsaacGr00tCheckpointBucket}">>

\* checkpoint_bucket.grant_read_write(job_role)
grant_read_write(bucket) ==
    PolicyStatement({"s3:GetObject*", "s3:GetBucket*", "s3:List*", "s3:DeleteObject*",
                     "s3:PutObject", "s3:PutObjectLegalHold", "s3:PutObjectRetention",
                     "s3:PutObjectTagging", "s3:PutObjectVersionTagging", "s3:Abort*"},
                    {BucketArn(bucket), BucketArn(bucket) \o <<"/", "*">>})

\* lines 270-282: read-only statements for the dataset bucket
dataset_statements(dataset_bucket) ==
    IF Falsy(dataset_bucket)
    THEN {}
    ELSE {PolicyStatement({"s3:ListBucket"}, {BucketArn(dataset_bucket)}),
          PolicyStatement({"s3:GetObject"}, {BucketArn(dataset_bucket) \o <<"/", "*">>})}

\* lines 306-310: bucket and prefix of an s3:// URI
upload_location(s3_upload_uri) ==
    LET remainder == drop(s3_upload_uri, 5)
    IN  IF contains(remainder, "/")
        THEN [bucket |-> split_once(remainder, "/")[1], prefix |-> split_once(remainder, "/")[2]]
        ELSE [bucket |-> remainder, prefix |-> <<>>]

\* lines 284-333: the statements for the checkpoint bucket
upload_statements(s3_upload_uri) ==
    IF Falsy(s3_upload_uri)
    THEN {grant_read_write(CreatedBucket)}
    ELSE IF startswith(s3_upload_uri, S3Scheme)
    THEN LET loc == upload_location(s3_upload_uri)
             object_resource == IF loc.prefix # <<>>
                                THEN BucketArn(loc.bucket) \o <<"/">> \o loc.prefix \o <<"*">>
                                ELSE BucketArn(loc.bucket) \o <<"/", "*">>
         IN  {PolicyStatement({"s3:ListBucket"}, {BucketArn(loc.bucket)}),
              PolicyStatement({"s3:GetObject", "s3:PutObject", "s3:DeleteObject",
                               "s3:AbortMultipartUpload", "s3:ListMultipartUploadParts"},
                              {object_resource})}
    ELSE {}

\* lines 285-300: the upload URI after the bucket is resolved or created
resolved_upload_uri(s3_upload_uri) ==
    IF Falsy(s3_upload_uri)
    THEN S3Scheme \o CreatedBucket \o <<"/", "gr00t/checkpoints">>
    ELSE s3_upload_uri

\* lines 336-343: checkpoint_bucket is None exactly when s3_upload_uri was given
managed_policies(dataset_bucket, s3_upload_uri) ==
    LET checkpoint_bucket_is_None == ~Falsy(s3_upload_uri)
    IN  IF Falsy(dataset_bucket) /\ Falsy(s3_upload_uri) /\ checkpoint_bucket_is_None
        THEN {"AmazonS3ReadOnlyAccess"}
        ELSE {}

\* lines 352-358
container_environment(s3_upload_uri) ==
    IF Falsy(resolved_upload_uri(s3_upload_uri))
    THEN [n \in {"OUTPUT_DIR"} |-> <<"/mnt/efs/gr00t/checkpoints">>]
    ELSE [n \in {"OUTPUT_DIR", "UPLOAD_TARGET", "S3_UPLOAD_URI"} |->
            CASE n = "OUTPUT_DIR" -> <<"/mnt/efs/gr00t/checkpoints">>
              [] n = "UPLOAD_TARGET" -> <<"s3">>
              [] OTHER -> resolved_upload_uri(s3_upload_uri)]

\* no stack yet
NoBatchStack ==
    [ built |-> FALSE, vpc |-> NoValue, efs_id |-> NoValue, efs_sg_id |-> NoValue,
      statements |-> {}, managed_policies |-> {},
      container_environment |-> <<>> ]

\* the stack BatchStack(...) constructs
BatchStack(vpc_id, efs_id, efs_sg_id, dataset_bucket, s3_upload_uri) ==
    [ built |-> TRUE,
      vpc |-> IF Falsy(vpc_id) THEN CreatedVpc ELSE vpc_id,
      efs_id |-> IF Falsy(efs_id) THEN CreatedEfs ELSE efs_id,
      efs_sg_id |-> IF Falsy(efs_id) THEN CreatedEfsSg ELSE efs_sg_id,
      statements |-> dataset_statements(dataset_bucket) \cup upload_statements(s3_upload_uri),
      managed_policies |-> managed_policies(dataset_bucket, s3_upload_uri),
      container_environment |-> container_environment(s3_upload_uri) ]

----------------------------------------------------------------------------
(* DcvStack.__init__                                                        *)

NoDcvStack ==
    [ built |-> FALSE, vpc |-> NoValue, efs_mounted |-> FALSE,
      efs_id |-> NoValue, efs_sg_id |-> NoValue ]

\* the stack DcvStack(efs_id=, efs_sg_id=, batch_stack=) constructs
DcvStack(efs_id, efs_sg_id, batch_stack) ==
    [ built |-> TRUE,
      vpc |-> batch_stack.vpc,
      efs_mounted |-> ~Falsy(efs_id) /\ ~Falsy(efs_sg_id),
      efs_id |-> IF ~Falsy(efs_id) /\ ~Falsy(efs_sg_id) THEN efs_id ELSE NoValue,
      efs_sg_id |-> IF ~Falsy(efs_id) /\ ~Falsy(efs_sg_id) THEN efs_sg_id ELSE NoValue ]

----------------------------------------------------------------------------
(* infra/app.py                                                             *)

ContextKeys == {"vpc_id", "efs_id", "efs_sg_id", "ecr_image_uri", "dataset_bucket", "s3_upload_uri"}

NoContext == [k \in ContextKeys |-> NoValue]

\* the app before app.py runs (and in the specifications of the workflow)
NoApp ==
    [ pc |-> "IDLE", context |-> NoContext, environ |-> NoContext, ctx |-> NoContext,
      batch_stack |-> NoBatchStack, dcv_stack |-> NoDcvStack, exc |-> "" ]

\* lines 16-27: app.node.try_get_context(key) or os.getenv(KEY)
resolve_context(context, environ) == [k \in ContextKeys |-> py_or(context[k], environ[k])]

----------------------------------------------------------------------------
(* Reads of os.environ                                                      *)

\* the names the constructor passes to os.getenv (lines 44-84)
EnvNames ==
    {"DATASET_LOCAL_DIR", "OUTPUT_DIR", "MAX_STEPS", "SAVE_STEPS", "NUM_GPUS", "DATA_CONFIG",
     "VIDEO_BACKEND", "BATCH_SIZE", "LEARNING_RATE", "BASE_MODEL_PATH", "EMBODIMENT_TAG",
     "REPORT_TO", "TUNE_LLM", "TUNE_VISUAL", "TUNE_PROJECTOR", "TUNE_DIFFUSION_MODEL",
     "LORA_RANK", "LORA_ALPHA", "LORA_DROPOUT", "WEIGHT_DECAY", "WARMUP_RATIO",
     "DATALOADER_NUM_WORKERS", "DATALOADER_PREFETCH_FACTOR", "BALANCE_DATASET_WEIGHTS",
     "BALANCE_TRAJECTORY_WEIGHTS", "LORA_FULL_MODEL", "RESUME"}

\* the names validate_dataset looks up in os.environ (line 130)
validate_dataset_reads == {"DATASET_LOCAL_DIR"}

\* the names run_training looks up in os.environ (lines 361 and 367)
run_training_reads(self, e, f, n) ==
    IF run_training(self, e, f, n).exc # NoExc \/ self.num_gpus = 1
    THEN {}
    ELSE IF run_training(self, e, f, n).kind = "Direct"
    THEN {"IS_TORCHRUN"}
    ELSE {"IS_TORCHRUN", "CUDA_VISIBLE_DEVICES"}

Read(step, names) == {<<step, n>> : n \in names}

----------------------------------------------------------------------------
(* Initial states                                                           *)

\* the environments in which a variable is unset or has one of the values of S
Opt(name, S) == {<<>>} \cup {[n \in {name} |-> v] : v \in S}

Merge(a, b) == [n \in (DOMAIN a) \cup (DOMAIN b) |-> IF n \in DOMAIN a THEN a[n] ELSE b[n]]

NumGpusInputs == ({ToString(n) : n \in 0..(MaxGpus + 1)} \ {"1"}) \cup {"abc"}

EnvInputs ==
    { Merge(a, Merge(b, Merge(c, Merge(g, h)))) :
        a \in Opt("DATASET_LOCAL_DIR", {"", DatasetDir}),
        b \in Opt("DATA_CONFIG", {"so100_dualcam", "my_robot"}),
        c \in Opt("NUM_GPUS", NumGpusInputs),
        g \in Opt("IS_TORCHRUN", {"1"}),
        h \in Opt("CUDA_VISIBLE_DEVICES", {"3"}) }

\* a modality.json somebody else wrote
CustomModality ==
    [indent |-> 2, doc |-> [state |-> [arm |-> [start |-> 0, end |-> 7]]]]

WellFormed(f) == \A p \in Paths : exists(f, p) /\ dirname(p) \in Paths => isdir(f, dirname(p))

FsInputs ==
    { f \in [Paths -> {Absent, Dir, File(<<>>), File(json_dump(modality_content)),
                       File(CustomModality)}] :
        /\ WellFormed(f)
        /\ f[Workspace] = Dir
        /\ f[DatasetDir] \in {Absent, Dir, File(<<>>)}
        /\ f[MetaDir] \in {Absent, Dir, File(<<>>)}
        /\ f[EpisodeData] \in {Absent, Dir}
        /\ f[DefaultOutputDir] \in {Absent, Dir, File(<<>>)}
        /\ f[ModalityJson] # File(<<>>) }

Init ==
    /\ pc = [p \in Procs |-> IF p = Parent THEN "START" ELSE "NOT_STARTED"]
    /\ \E e \in EnvInputs : env = [p \in Procs |-> IF p = Parent THEN e ELSE <<>>]
    /\ cfg = [p \in Procs |-> NoConfig]
    /\ fs \in FsInputs
    /\ gpus \in 0..MaxGpus
    /\ exitCode = [p \in Procs |-> -1]
    /\ raised = [p \in Procs |-> NoExc]
    /\ log = [p \in Procs |-> <<>>]
    /\ steps = [p \in Procs |-> <<>>]
    /\ writes = <<>>
    /\ targs = [p \in Procs |-> NoArgs]
    /\ model = [p \in Procs |-> NoModel]
    /\ launcher = [p \in Procs |-> NoLauncher]
    /\ reads = [p \in Procs |-> {}]
    /\ calls = [p \in Procs |-> {}]
    /\ runs = 0
    /\ cdk = NoApp

----------------------------------------------------------------------------
(* main() and run_workflow(), one action per step                           *)

Written(p, call, paths) == [i \in 1..Len(paths) |-> <<p, call, paths[i]>>]

\* an exception propagates out of main(): traceback, exit status 1
Uncaught(p, exc, logged) ==
    /\ pc' = [pc EXCEPT ![p] = "EXITED"]
    /\ exitCode' = [exitCode EXCEPT ![p] = 1]
    /\ raised' = [raised EXCEPT ![p] = exc]
    /\ log' = [log EXCEPT ![p] = @ \o logged \o <<Traceback(exc)>>]

\* an except clause that starts the workflow over
Caught_retry(p, exc, logged) ==
    /\ pc' = [pc EXCEPT ![p] = "START"]
    /\ log' = [log EXCEPT ![p] = @ \o logged \o <<Error(exc)>>]
    /\ UNCHANGED <<exitCode, raised>>

\* except Exception as e: logger.error(...); sys.exit(1)
Caught(p, exc, logged) ==
    /\ pc' = [pc EXCEPT ![p] = "EXITED"]
    /\ exitCode' = [exitCode EXCEPT ![p] = 1]
    /\ raised' = [raised EXCEPT ![p] = exc]
    /\ log' = [log EXCEPT ![p] = @ \o logged \o <<Error(exc)>>]

\* the step went through: on to the next one
Goes(p, next, logged) ==
    /\ pc' = [pc EXCEPT ![p] = next]
    /\ log' = [log EXCEPT ![p] = @ \o logged]
    /\ UNCHANGED <<exitCode, raised>>

\* run_workflow returns, main returns: exit status 0
Returns(p) ==
    /\ pc' = [pc EXCEPT ![p] = "EXITED"]
    /\ exitCode' = [exitCode EXCEPT ![p] = 0]
    /\ UNCHANGED <<raised, log>>

\* main(): workflow = FinetuneWorkflow()
Construct(p) ==
    /\ pc[p] = "START"
    /\ LET r == FinetuneWorkflow(env[p])
       IN  /\ cfg' = [cfg EXCEPT ![p] = r.self]
           /\ IF r.exc # NoExc
              THEN Uncaught(p, r.exc, r.log)
              ELSE Goes(p, "RESOLVED", r.log)
    /\ steps' = [steps EXCEPT ![p] = Append(@, "resolve")]
    /\ reads' = [reads EXCEPT ![p] = @ \cup Read("resolve", EnvNames)]
    /\ UNCHANGED <<env, fs, gpus, writes, targs, model, launcher, calls, runs, cdk>>

\* run_workflow(): self.validate_dataset()
ValidateDataset(p) ==
    /\ pc[p] = "RESOLVED"
    /\ LET r == validate_dataset(cfg[p], env[p], fs)
       IN  /\ fs' = r.fs
           /\ writes' = writes \o Written(p, "validate_dataset", r.wrote)
           /\ IF r.exc # NoExc
              THEN Caught(p, r.exc, r.log)
              ELSE Goes(p, "DATASET_READY", r.log)
    /\ steps' = [steps EXCEPT ![p] = Append(@, "ensure_dataset_ready")]
    /\ reads' = [reads EXCEPT ![p] = @ \cup Read("ensure_dataset_ready", validate_dataset_reads)]
    /\ UNCHANGED <<env, cfg, gpus, targs, model, launcher, calls, runs, cdk>>

\* a run_training step that lowers num_gpus to the devices available
RunTraining_clamps(p) ==
    /\ pc[p] = "DATASET_READY"
    /\ LET self == [cfg[p] EXCEPT !.num_gpus = IF @ > available_gpus(gpus)
                                                 THEN available_gpus(gpus) ELSE @]
           r == run_training(self, env[p], fs, gpus)
       IN  /\ fs' = r.fs
           /\ env' = [env EXCEPT ![p] = r.env]
           /\ cfg' = [cfg EXCEPT ![p] = self]
           /\ writes' = writes \o Written(p, "run_training", r.created)
           /\ IF r.exc # NoExc
              THEN Caught(p, r.exc, <<>>)
              ELSE Goes(p, IF r.kind = "Direct" THEN "DIRECT" ELSE "SPAWN", <<>>)
    /\ steps' = [steps EXCEPT ![p] = Append(@, "plan_execution")]
    /\ reads' = [reads EXCEPT ![p] =
                    @ \cup Read("plan_execution", run_training_reads(cfg[p], env[p], fs, gpus))]
    /\ UNCHANGED <<gpus, targs, model, launcher, calls, runs, cdk>>

\* run_workflow(): self.run_training(), up to the call of _train_once or torchrun
RunTraining(p) ==
    /\ pc[p] = "DATASET_READY"
    /\ LET r == run_training(cfg[p], env[p], fs, gpus)
       IN  /\ fs' = r.fs
           /\ env' = [env EXCEPT ![p] = r.env]
           /\ writes' = writes \o Written(p, "run_training", r.created)
           /\ IF r.exc # NoExc
              THEN Caught(p, r.exc, <<>>)
              ELSE Goes(p, IF r.kind = "Direct" THEN "DIRECT" ELSE "SPAWN", <<>>)
    /\ steps' = [steps EXCEPT ![p] = Append(@, "plan_execution")]
    /\ reads' = [reads EXCEPT ![p] =
                    @ \cup Read("plan_execution", run_training_reads(cfg[p], env[p], fs, gpus))]
    /\ UNCHANGED <<cfg, gpus, targs, model, launcher, calls, runs, cdk>>

\* _train_once(): the dataset and the model are loaded by the gr00t library,
\* which may raise, and the model is wrapped when LoRA is asked for
LoadDataAndModel(p) ==
    /\ pc[p] = "DIRECT"
    /\ \/ /\ Goes(p, "LOADED", <<>>)
          /\ model' = [model EXCEPT ![p] = prepare_model(cfg[p])]
       \/ /\ Caught(p, Exc("Exception", "gr00t"), <<>>)
          /\ UNCHANGED model
    /\ calls' = [calls EXCEPT ![p] = @ \cup {"_train_once"}]
    /\ UNCHANGED <<env, cfg, fs, gpus, steps, writes, targs, launcher, reads, runs, cdk>>

\* _train_once(): training_args = TrainingArguments(...)
BuildTrainingParameters(p) ==
    /\ pc[p] = "LOADED"
    /\ targs' = [targs EXCEPT ![p] = TrainingArguments(cfg[p])]
    /\ Goes(p, "PARAMS_BUILT", <<>>)
    /\ steps' = [steps EXCEPT ![p] = Append(@, "build_training_parameters")]
    /\ UNCHANGED <<env, cfg, fs, gpus, writes, model, launcher, reads, calls, runs, cdk>>

\* _train_once(): TrainRunner(...).train(), which may raise; then run_workflow
\* and main return
Train(p) ==
    /\ pc[p] = "PARAMS_BUILT"
    /\ \/ Returns(p)
       \/ Caught(p, Exc("Exception", "trainer"), <<>>)
    /\ steps' = [steps EXCEPT ![p] = Append(@, "trainer")]
    /\ UNCHANGED <<env, cfg, fs, gpus, writes, targs, model, launcher, reads, calls, runs, cdk>>

\* the k lowest-numbered workers that have not been started
FreeWorkers(k) ==
    {w \in Workers :
        /\ pc[w] = "NOT_STARTED"
        /\ Cardinality({v \in Workers : pc[v] = "NOT_STARTED" /\ v[2] < w[2]}) < k}

\* run_training(): torchrun(args=args) is called with --nproc_per_node=num_gpus;
\* it starts that many workers from this script with the environment of the
\* caller, or none when it fails first
Launch(p) ==
    /\ pc[p] = "SPAWN"
    /\ \E k \in {0, cfg[p].num_gpus} :
         /\ launcher' = [launcher EXCEPT ![p] = [@ EXCEPT !.state = "running",
                                                          !.nproc = cfg[p].num_gpus,
                                                          !.started = FreeWorkers(k)]]
         /\ pc' = [q \in Procs |->
                     IF q = p THEN "LAUNCHED"
                     ELSE IF q \in FreeWorkers(k) THEN "START"
                     ELSE pc[q]]
         /\ env' = [q \in Procs |-> IF q \in FreeWorkers(k) THEN env[p] ELSE env[q]]
    /\ steps' = [steps EXCEPT ![p] = Append(@, "trainer")]
    /\ calls' = [calls EXCEPT ![p] = @ \cup {"torchrun"}]
    /\ UNCHANGED <<cfg, fs, gpus, exitCode, raised, log, writes, targs, model, reads, runs, cdk>>

\* a torchrun call after whose return the caller trains in-process as well
LauncherEnds_then_trains(p) ==
    /\ pc[p] = "LAUNCHED"
    /\ launcher[p].state = "running"
    /\ \A w \in launcher[p].started : pc[w] = "EXITED"
    /\ \E o \in LauncherOutcomes :
         /\ launcher' = [launcher EXCEPT ![p] = [@ EXCEPT !.state = "ended", !.outcome = o]]
         /\ CASE o.kind = "return" -> Goes(p, "DIRECT", <<>>)
              [] o.kind = "SystemExit" ->
                    /\ pc' = [pc EXCEPT ![p] = "EXITED"]
                    /\ exitCode' = [exitCode EXCEPT ![p] = propagated_code(o.code)]
                    /\ UNCHANGED <<raised, log>>
              [] OTHER -> Caught(p, Exc("Exception", "torchrun"), <<>>)
    /\ UNCHANGED <<env, cfg, fs, gpus, steps, writes, targs, model, reads, calls, runs, cdk>>

\* torchrun(args=args) ends once its workers have; lines 380-384 and the
\* except clause of run_workflow decide the exit status
LauncherEnds(p) ==
    /\ pc[p] = "LAUNCHED"
    /\ launcher[p].state = "running"
    /\ \A w \in launcher[p].started : pc[w] = "EXITED"
    /\ \E o \in LauncherOutcomes :
         /\ launcher' = [launcher EXCEPT ![p] = [@ EXCEPT !.state = "ended", !.outcome = o]]
         /\ CASE o.kind = "return" -> Returns(p)
              [] o.kind = "SystemExit" ->
                    /\ pc' = [pc EXCEPT ![p] = "EXITED"]
                    /\ exitCode' = [exitCode EXCEPT ![p] = propagated_code(o.code)]
                    /\ UNCHANGED <<raised, log>>
              [] OTHER -> Caught(p, Exc("Exception", "torchrun"), <<>>)
    /\ UNCHANGED <<env, cfg, fs, gpus, steps, writes, targs, model, reads, calls, runs, cdk>>

Step(p) ==
    \/ Construct(p)
    \/ ValidateDataset(p)
    \/ RunTraining(p)
    \/ LoadDataAndModel(p)
    \/ BuildTrainingParameters(p)
    \/ Train(p)
    \/ Launch(p)
    \/ LauncherEnds(p)

Next == \E p \in Procs : Step(p)

Spec == Init /\ [][Next]_vars

----------------------------------------------------------------------------
(* validate_dataset called again and again on one directory                 *)

InitDataset ==
    /\ \E e \in EnvInputs :
         /\ FinetuneWorkflow(e).exc = NoExc
         /\ env = [p \in Procs |-> IF p = Parent THEN e ELSE <<>>]
         /\ cfg = [p \in Procs |-> IF p = Parent THEN FinetuneWorkflow(e).self ELSE NoConfig]
    /\ pc = [p \in Procs |-> IF p = Parent THEN "RESOLVED" ELSE "NOT_STARTED"]
    /\ fs \in FsInputs
    /\ gpus \in 0..MaxGpus
    /\ exitCode = [p \in Procs |-> -1]
    /\ raised = [p \in Procs |-> NoExc]
    /\ log = [p \in Procs |-> <<>>]
    /\ steps = [p \in Procs |-> <<"resolve">>]
    /\ writes = <<>>
    /\ targs = [p \in Procs |-> NoArgs]
    /\ model = [p \in Procs |-> NoModel]
    /\ launcher = [p \in Procs |-> NoLauncher]
    /\ reads = [p \in Procs |-> {}]
    /\ calls = [p \in Procs |-> {}]
    /\ runs = 0
    /\ cdk = NoApp

\* one more call of validate_dataset on the same object
ValidateAgain ==
    /\ runs < MaxRuns
    /\ runs' = runs + 1
    /\ LET r == validate_dataset(cfg[Parent], env[Parent], fs)
       IN  /\ fs' = r.fs
           /\ writes' = writes \o Written(Parent, "validate_dataset", r.wrote)
           /\ raised' = [raised EXCEPT ![Parent] = r.exc]
           /\ log' = [log EXCEPT ![Parent] = @ \o r.log]
    /\ UNCHANGED <<pc, env, cfg, gpus, exitCode, steps, targs, model, launcher, reads, calls, cdk>>

NextDataset == ValidateAgain

SpecDataset == InitDataset /\ [][NextDataset]_vars

----------------------------------------------------------------------------
(* The workflow on a prepared dataset, over the training parameters         *)

TrainEnvInputs ==
    { Merge([n \in {"DATASET_LOCAL_DIR"} |-> DatasetDir],
            Merge(a, Merge(b, Merge(c, Merge(d, Merge(g, Merge(h, Merge(i, Merge(j, k))))))))) :
        a \in Opt("DATA_CONFIG", {"my_robot"}),
        b \in Opt("EMBODIMENT_TAG", {"gr1", "my_tag"}),
        c \in Opt("NUM_GPUS", {"2"}),
        d \in Opt("MAX_STEPS", {"0", "100"}),
        g \in Opt("SAVE_STEPS", {"-1"}),
        h \in Opt("BATCH_SIZE", {"0"}),
        i \in Opt("LEARNING_RATE", {"-0.1"}),
        j \in Opt("WEIGHT_DECAY", {"0"}),
        k \in Opt("WARMUP_RATIO", {"0"}) }

\* a dataset directory the upstream script has prepared
PreparedFs ==
    [p \in Paths |->
        CASE p = ModalityJson -> File(json_dump(modality_content))
          [] p = DefaultOutputDir -> Absent
          [] OTHER -> Dir]

InitTrain ==
    /\ pc = [p \in Procs |-> IF p = Parent THEN "START" ELSE "NOT_STARTED"]
    /\ \E e \in TrainEnvInputs : env = [p \in Procs |-> IF p = Parent THEN e ELSE <<>>]
    /\ cfg = [p \in Procs |-> NoConfig]
    /\ fs = PreparedFs
    /\ gpus = MaxGpus
    /\ exitCode = [p \in Procs |-> -1]
    /\ raised = [p \in Procs |-> NoExc]
    /\ log = [p \in Procs |-> <<>>]
    /\ steps = [p \in Procs |-> <<>>]
    /\ writes = <<>>
    /\ targs = [p \in Procs |-> NoArgs]
    /\ model = [p \in Procs |-> NoModel]
    /\ launcher = [p \in Procs |-> NoLauncher]
    /\ reads = [p \in Procs |-> {}]
    /\ calls = [p \in Procs |-> {}]
    /\ runs = 0
    /\ cdk = NoApp

SpecTrain == InitTrain /\ [][Next]_vars

----------------------------------------------------------------------------
(* The workflow on a prepared dataset, over the optional variables          *)

\* values given to the optional variables of the constructor
Overrides ==
    { <<"OUTPUT_DIR", Workspace>>, <<"MAX_STEPS", "100">>, <<"SAVE_STEPS", "100">>,
      <<"NUM_GPUS", "2">>, <<"DATA_CONFIG", "fourier_gr1_arms_only">>,
      <<"EMBODIMENT_TAG", "gr1">>, <<"TUNE_LLM", "true">>, <<"TUNE_VISUAL", "True">>,
      <<"TUNE_PROJECTOR", "false">>, <<"TUNE_DIFFUSION_MODEL", "FALSE">>,
      <<"LORA_RANK", "4">>, <<"LORA_RANK", "-1">>, <<"LORA_ALPHA", "32">>,
      <<"LORA_DROPOUT", "0.05">>, <<"LORA_FULL_MODEL", "true">>, <<"RESUME", "true">> }

\* the sets of overrides that set no variable twice
OverrideSets ==
    { S \in SUBSET Overrides :
        /\ Cardinality(S) <= MaxOverrides
        /\ \A a, b \in S : a[1] = b[1] => a = b }

ConfigEnvInputs ==
    { [n \in {"DATASET_LOCAL_DIR"} \cup {a[1] : a \in S} |->
          IF n = "DATASET_LOCAL_DIR" THEN DatasetDir
          ELSE (CHOOSE a \in S : a[1] = n)[2]] : S \in OverrideSets }

InitConfig ==
    /\ pc = [p \in Procs |-> IF p = Parent THEN "START" ELSE "NOT_STARTED"]
    /\ \E e \in ConfigEnvInputs : env = [p \in Procs |-> IF p = Parent THEN e ELSE <<>>]
    /\ cfg = [p \in Procs |-> NoConfig]
    /\ fs = PreparedFs
    /\ gpus = MaxGpus
    /\ exitCode = [p \in Procs |-> -1]
    /\ raised = [p \in Procs |-> NoExc]
    /\ log = [p \in Procs |-> <<>>]
    /\ steps = [p \in Procs |-> <<>>]
    /\ writes = <<>>
    /\ targs = [p \in Procs |-> NoArgs]
    /\ model = [p \in Procs |-> NoModel]
    /\ launcher = [p \in Procs |-> NoLauncher]
    /\ reads = [p \in Procs |-> {}]
    /\ calls = [p \in Procs |-> {}]
    /\ runs = 0
    /\ cdk = NoApp

SpecConfig == InitConfig /\ [][Next]_vars

----------------------------------------------------------------------------
(* The CDK app of infra/app.py                                              *)

\* the variables of the training workflow
workflow == <<pc, env, cfg, fs, gpus, exitCode, raised, log, steps, writes, targs, model,
              launcher, reads, calls, runs>>

\* s3_upload_uri values: absent, empty, s3://b, s3://b/p, s3://b/p/q, b/p
UploadUris ==
    { NoValue, <<>>,
      S3Scheme \o <<"b">>,
      S3Scheme \o <<"b", "/", "p">>,
      S3Scheme \o <<"b", "/", "p", "/", "q">>,
      <<"b", "/", "p">> }

ContextInputs ==
    { [NoContext EXCEPT !["vpc_id"] = v, !["efs_id"] = f, !["efs_sg_id"] = g,
                        !["dataset_bucket"] = d, !["s3_upload_uri"] = u] :
        v \in {NoValue, <<"vpc-1">>},
        f \in {NoValue, <<"fs-1">>},
        g \in {NoValue, <<"sg-1">>},
        d \in {NoValue, <<>>, <<"d">>},
        u \in UploadUris }

EnvironInputs ==
    { [NoContext EXCEPT !["efs_id"] = f, !["efs_sg_id"] = g] :
        f \in {NoValue, <<"fs-2">>},
        g \in {NoValue, <<"sg-2">>} }

InitInfra ==
    /\ pc = [p \in Procs |-> "NOT_STARTED"]
    /\ env = [p \in Procs |-> <<>>]
    /\ cfg = [p \in Procs |-> NoConfig]
    /\ fs = [p \in Paths |-> Absent]
    /\ gpus = 0
    /\ exitCode = [p \in Procs |-> -1]
    /\ raised = [p \in Procs |-> NoExc]
    /\ log = [p \in Procs |-> <<>>]
    /\ steps = [p \in Procs |-> <<>>]
    /\ writes = <<>>
    /\ targs = [p \in Procs |-> NoArgs]
    /\ model = [p \in Procs |-> NoModel]
    /\ launcher = [p \in Procs |-> NoLauncher]
    /\ reads = [p \in Procs |-> {}]
    /\ calls = [p \in Procs |-> {}]
    /\ runs = 0
    /\ \E c \in ContextInputs, e \in EnvironInputs :
          cdk = [NoApp EXCEPT !.pc = "START", !.context = c, !.environ = e]

\* lines 16-27 of app.py
ReadContext ==
    /\ cdk.pc = "START"
    /\ cdk' = [cdk EXCEPT !.pc = "CONTEXT", !.ctx = resolve_context(cdk.context, cdk.environ)]
    /\ UNCHANGED workflow

\* lines 29-39 of app.py: BatchStack(...); the security group import of line
\* 89 is given None when efs_id comes without efs_sg_id, which the library
\* may reject
ConstructBatchStack ==
    /\ cdk.pc = "CONTEXT"
    /\ \/ cdk' = [cdk EXCEPT !.pc = "BATCH",
                              !.batch_stack = BatchStack(cdk.ctx["vpc_id"], cdk.ctx["efs_id"],
                                                         cdk.ctx["efs_sg_id"],
                                                         cdk.ctx["dataset_bucket"],
                                                         cdk.ctx["s3_upload_uri"])]
       \/ /\ ~Falsy(cdk.ctx["efs_id"])
          /\ cdk.ctx["efs_sg_id"] = NoValue
          /\ cdk' = [cdk EXCEPT !.pc = "FAILED", !.exc = "TypeError"]
    /\ UNCHANGED workflow

\* lines 43-54 of app.py: DcvStack(efs_id=ctx_efs_id or batch_stack.efs_id, ...)
ConstructDcvStack ==
    /\ cdk.pc = "BATCH"
    /\ cdk' = [cdk EXCEPT !.pc = "DCV",
                          !.dcv_stack = DcvStack(py_or(cdk.ctx["efs_id"], cdk.batch_stack.efs_id),
                                                 py_or(cdk.ctx["efs_sg_id"], cdk.batch_stack.efs_sg_id),
                                                 cdk.batch_stack)]
    /\ UNCHANGED workflow

\* line 56 of app.py
Synth ==
    /\ cdk.pc = "DCV"
    /\ cdk' = [cdk EXCEPT !.pc = "SYNTH"]
    /\ UNCHANGED workflow

NextInfra ==
    \/ ReadContext
    \/ ConstructBatchStack
    \/ ConstructDcvStack
    \/ Synth

SpecInfra == InitInfra /\ [][NextInfra]_vars

----------------------------------------------------------------------------
(* Properties                                                               *)

StepRank(s) ==
    CASE s = "resolve" -> 1
      [] s = "ensure_dataset_ready" -> 2
      [] s = "plan_execution" -> 3
      [] s = "build_training_parameters" -> 4
      [] s = "trainer" -> 5
      [] OTHER -> 0

Ordered(s) == \A i, j \in 1..Len(s) : i < j => StepRank(s[i]) < StepRank(s[j])

AllSteps == <<"resolve", "ensure_dataset_ready", "plan_execution",
              "build_training_parameters", "trainer">>

\* process p makes its validate_dataset step
ValidateStep(p) == pc[p] = "RESOLVED" /\ pc'[p] # "RESOLVED"

\* the dataset path of p is a directory with at least one entry
DirWithEntries(p) ==
    /\ cfg[p].dataset_local_dir \in Paths
    /\ fs[cfg[p].dataset_local_dir].kind = "dir"
    /\ \E q \in Paths : dirname(q) = cfg[p].dataset_local_dir /\ fs[q].kind # "absent"

Logged(p, level) == \E i \in 1..Len(log[p]) : log[p][i].level = level

\* C1: in every process the workflow steps are entered at most once each and
\* only in the order resolve, ensure_dataset_ready, plan_execution,
\* build_training_parameters, trainer hand-off; a process that has exited
\* enters no further step.
C1_SinglePass ==
    [][\A p \in Procs :
          /\ Ordered(steps'[p])
          /\ pc[p] = "EXITED" => (pc'[p] = "EXITED" /\ steps'[p] = steps[p])]_vars

C1_Witness == pc[Parent] = "EXITED" /\ exitCode[Parent] = 0 /\ steps[Parent] = AllSteps

\* C2: every process whose workflow ended with an exception has exit status 1
\* and has logged the error through logger.error ("Workflow failed").
C2_FailureLoggedExit1 ==
    \A p \in Procs :
        (pc[p] = "EXITED" /\ raised[p] # NoExc) => (exitCode[p] = 1 /\ Logged(p, "ERROR"))

\* C3: when torchrun has ended by returning or by SystemExit, the exit status
\* of the parent is the status of the launcher (0 for a return or an absent
\* code, n for an integer code n, 1 for any other code).
C3_PropagatedExitCode ==
    (pc[Parent] = "EXITED" /\ launcher[Parent].state = "ended"
        /\ launcher[Parent].outcome.kind \in {"return", "SystemExit"})
    => exitCode[Parent] = (IF launcher[Parent].outcome.kind = "return" THEN 0
                           ELSE StatusOfExit(launcher[Parent].outcome.code))

RequiredVars == {"DATASET_LOCAL_DIR"}

MissingRequired(e) == {v \in RequiredVars : v \notin DOMAIN e \/ e[v] = ""}

Elems(s) == {s[i] : i \in 1..Len(s)}

JustConstructed(p) == Len(steps[p]) = 1

MissingReported(p) ==
    /\ pc[p] = "EXITED"
    /\ raised[p].msg = "Missing required environment variables"
    /\ Elems(raised[p].names) = MissingRequired(env[p])

\* C4 as stated: whatever the other variables hold, the constructor fails
\* naming every missing required variable when one is unset or empty, and
\* succeeds otherwise.
C4_Original ==
    \A p \in Procs :
        JustConstructed(p) =>
            IF MissingRequired(env[p]) # {} THEN MissingReported(p) ELSE pc[p] = "RESOLVED"

\* C4 amended: when every numeric variable that is set converts, the
\* constructor fails naming every missing required variable when one is unset
\* or empty and succeeds otherwise; when one does not convert, the constructor
\* fails with the ValueError of the conversion.
C4_CollectAll ==
    \A p \in Procs :
        JustConstructed(p) =>
            IF BadNumeric(env[p]) # <<>>
            THEN pc[p] = "EXITED" /\ raised[p].type = "ValueError" /\ raised[p].names = <<>>
            ELSE IF MissingRequired(env[p]) # {} THEN MissingReported(p)
            ELSE pc[p] = "RESOLVED"

C4_Witness ==
    /\ JustConstructed(Parent)
    /\ "DATASET_LOCAL_DIR" \in DOMAIN env[Parent]
    /\ env[Parent]["DATASET_LOCAL_DIR"] = ""
    /\ "DATA_CONFIG" \in DOMAIN env[Parent]
    /\ MissingReported(Parent)

\* C5: validate_dataset raises the "not prepared" error whenever the dataset
\* path is not a directory with at least one entry, and succeeds only on a
\* directory with at least one entry.
C5_NotReady ==
    [][\A p \in Procs :
          ValidateStep(p) =>
              /\ ~DirWithEntries(p) => (pc'[p] = "EXITED" /\ raised'[p] = NotPrepared)
              /\ pc'[p] = "DATASET_READY" => DirWithEntries(p)]_vars

C5_Witness ==
    /\ pc[Parent] = "EXITED"
    /\ raised[Parent] = NotPrepared
    /\ fs[DatasetDir].kind = "dir"
    /\ fs[MetaDir].kind = "absent" /\ fs[EpisodeData].kind = "absent"

\* C6: after validate_dataset has run once, running it again changes nothing
\* in the file system and performs no write.
C6_Idempotent == [][runs >= 1 => (fs' = fs /\ writes' = writes)]_vars

C6_Witness ==
    /\ runs = 2
    /\ writes = << <<Parent, "validate_dataset", MetaDir>>,
                   <<Parent, "validate_dataset", ModalityJson>> >>
    /\ fs[ModalityJson].kind = "file"

\* C7: when meta/modality.json is a file, validate_dataset succeeds and leaves
\* the file as it is, whatever the data_config.
C7_ExistingUntouched ==
    [][\A p \in Procs :
          (ValidateStep(p) /\ fs[ModalityJson].kind = "file")
          => (pc'[p] = "DATASET_READY" /\ fs'[ModalityJson] = fs[ModalityJson])]_vars

C7_Witness ==
    /\ pc[Parent] = "DATASET_READY"
    /\ cfg[Parent].data_config = "so100_dualcam"
    /\ fs[ModalityJson] = File(CustomModality)

DefaultSchema ==
    [ state |-> [single_arm |-> [start |-> 0, end |-> 5],
                 gripper |-> [start |-> 5, end |-> 6]],
      action |-> [single_arm |-> [start |-> 0, end |-> 5],
                  gripper |-> [start |-> 5, end |-> 6]],
      video |-> [wrist |-> [original_key |-> "observation.images.wrist"],
                 front |-> [original_key |-> "observation.images.front"]],
      annotation |-> [n \in {"human.task_description"} |-> [original_key |-> "task_index"]] ]

DefaultFile == [kind |-> "file", content |-> [indent |-> 4, doc |-> DefaultSchema]]

\* C8 as stated: on a directory with entries and nothing at
\* meta/modality.json, with data_config so100_dualcam, validate_dataset
\* succeeds and leaves meta/modality.json holding the default schema.
C8_Original ==
    [][\A p \in Procs :
          (ValidateStep(p) /\ DirWithEntries(p) /\ fs[ModalityJson].kind = "absent"
              /\ cfg[p].data_config = "so100_dualcam")
          => (pc'[p] = "DATASET_READY" /\ fs'[ModalityJson] = DefaultFile)]_vars

\* C8 amended: the same, provided meta is absent or a directory (not a
\* regular file).
C8_DefaultWritten ==
    [][\A p \in Procs :
          (ValidateStep(p) /\ DirWithEntries(p) /\ fs[ModalityJson].kind = "absent"
              /\ fs[MetaDir].kind # "file" /\ cfg[p].data_config = "so100_dualcam")
          => (pc'[p] = "DATASET_READY" /\ fs'[ModalityJson] = DefaultFile)]_vars

C8_Witness ==
    /\ pc[Parent] = "DATASET_READY"
    /\ writes = << <<Parent, "validate_dataset", MetaDir>>,
                   <<Parent, "validate_dataset", ModalityJson>> >>
    /\ fs[ModalityJson] = DefaultFile
    /\ "DATA_CONFIG" \notin DOMAIN env[Parent]

\* C9: with a data_config other than so100_dualcam, validate_dataset on a
\* directory with entries succeeds and changes nothing in the file system.
C9_OnlyWhenRequired ==
    [][\A p \in Procs :
          (ValidateStep(p) /\ DirWithEntries(p) /\ cfg[p].data_config # "so100_dualcam")
          => (pc'[p] = "DATASET_READY" /\ fs' = fs /\ writes' = writes)]_vars

C9_Witness ==
    /\ pc[Parent] = "DATASET_READY"
    /\ cfg[Parent].data_config = "my_robot"
    /\ fs[MetaDir].kind = "absent"

\* C10: a validate_dataset that fails leaves the file system as it was, and
\* a validate_dataset changes no path other than meta and meta/modality.json.
C10_NoConstruction ==
    [][\A p \in Procs :
          ValidateStep(p) =>
              /\ pc'[p] = "EXITED" => (fs' = fs /\ writes' = writes)
              /\ \A q \in Paths : fs'[q] # fs[q] => q \in {MetaDir, ModalityJson}]_vars

C10_Witness ==
    /\ pc[Parent] = "EXITED"
    /\ raised[Parent] = NotPrepared
    /\ fs[DatasetDir].kind = "absent"
    /\ writes = <<>>

\* process p makes its run_training step
PlanStep(p) == pc[p] = "DATASET_READY" /\ pc'[p] # "DATASET_READY"

\* os.makedirs(output_dir) of run_training goes through
OutputDirOk(p) == cfg[p].output_dir \in Paths /\ fs[cfg[p].output_dir].kind # "file"

\* IS_TORCHRUN=1 in the environment of p
MarkerSet(p) == "IS_TORCHRUN" \in DOMAIN env[p] /\ env[p]["IS_TORCHRUN"] = "1"

\* the accelerators run_training counts
Available == IF gpus > 0 THEN gpus ELSE 1

InProcess == {"DIRECT", "LOADED", "PARAMS_BUILT"}

\* C11: with IS_TORCHRUN unset and the output directory creatable,
\* run_training goes on to train in-process when num_gpus = 1 and to call
\* torchrun when 1 < num_gpus <= available; a process training in-process
\* has called no torchrun, and torchrun is called for exactly num_gpus workers.
C11_DecisionRule ==
    [][\A p \in Procs :
          /\ (PlanStep(p) /\ OutputDirOk(p) /\ ~MarkerSet(p)) =>
                /\ cfg[p].num_gpus = 1 => pc'[p] = "DIRECT"
                /\ (1 < cfg[p].num_gpus /\ cfg[p].num_gpus <= Available) => pc'[p] = "SPAWN"
          /\ pc'[p] \in InProcess => "torchrun" \notin calls'[p]
          /\ (pc[p] = "SPAWN" /\ pc'[p] = "LAUNCHED") =>
                /\ launcher'[p].nproc = cfg[p].num_gpus
                /\ Cardinality(launcher'[p].started) \in {0, cfg[p].num_gpus}]_vars

C11_Witness ==
    /\ pc[Parent] = "LAUNCHED"
    /\ cfg[Parent].num_gpus = 2
    /\ launcher[Parent].nproc = 2
    /\ Cardinality(launcher[Parent].started) = 2
    /\ \A w \in launcher[Parent].started : pc[w] = "DIRECT"

\* the num_gpus of p is outside 0 < num_gpus <= available
OutOfRange(p) == cfg[p].num_gpus <= 0 \/ cfg[p].num_gpus > Available

\* C12: when num_gpus is not positive or exceeds the accelerators available,
\* run_training fails with an AssertionError and the process exits 1 without
\* changing its environment, calling torchrun or _train_once, or starting a
\* worker.
C12_ResourceError ==
    [][\A p \in Procs :
          (PlanStep(p) /\ OutputDirOk(p) /\ OutOfRange(p)) =>
              /\ raised'[p].type = "AssertionError"
              /\ pc'[p] = "EXITED"
              /\ exitCode'[p] = 1
              /\ env'[p] = env[p]
              /\ launcher' = launcher
              /\ calls'[p] = {}
              /\ targs'[p] = NoArgs
              /\ \A w \in Workers \ {p} : pc'[w] = pc[w]]_vars

C12_Witness ==
    /\ pc[Parent] = "EXITED"
    /\ raised[Parent].type = "AssertionError"
    /\ cfg[Parent].num_gpus = 2
    /\ gpus < 2
    /\ \A w \in Workers : pc[w] = "NOT_STARTED"

\* C13 as stated: with IS_TORCHRUN=1 at entry, run_training goes on to train
\* in-process for every value of num_gpus.
C13_Original ==
    [][\A p \in Procs :
          (PlanStep(p) /\ OutputDirOk(p) /\ MarkerSet(p)) => pc'[p] = "DIRECT"]_vars

\* C13: with IS_TORCHRUN=1 at entry, run_training goes on to train in-process
\* for every num_gpus with 0 < num_gpus <= available, and for no value of
\* num_gpus does it go on to call torchrun.
C13_MarkerDirect ==
    [][\A p \in Procs :
          (PlanStep(p) /\ MarkerSet(p)) =>
              /\ (OutputDirOk(p) /\ ~OutOfRange(p)) => pc'[p] = "DIRECT"
              /\ pc'[p] # "SPAWN"
              /\ launcher'[p] = NoLauncher]_vars

C13_Witness ==
    /\ pc[Parent] = "DIRECT"
    /\ MarkerSet(Parent)
    /\ cfg[Parent].num_gpus = 2
    /\ launcher[Parent] = NoLauncher

\* C14: a worker that torchrun started has IS_TORCHRUN=1 in its environment,
\* never calls torchrun and never reaches the launch; only the parent has a
\* launcher, and it has set IS_TORCHRUN=1 before calling it.
C14_NoNestedSpawn ==
    /\ \A w \in Workers :
          pc[w] # "NOT_STARTED" =>
              /\ MarkerSet(w)
              /\ pc[w] \notin {"SPAWN", "LAUNCHED"}
              /\ "torchrun" \notin calls[w]
              /\ launcher[w] = NoLauncher
    /\ \A p \in Procs : launcher[p].state # "idle" => p = Parent
    /\ "torchrun" \in calls[Parent] => MarkerSet(Parent)

C14_Witness ==
    /\ launcher[Parent].state = "ended"
    /\ Cardinality(launcher[Parent].started) = 2
    /\ \A w \in launcher[Parent].started :
          pc[w] = "EXITED" /\ exitCode[w] = 0 /\ targs[w] # NoArgs

\* C15: every read of os.environ that sets an attribute or decides a branch
\* of the workflow happens in the constructor.
C15_ReadsOnlyInResolve ==
    \A p \in Procs : \A r \in reads[p] : r[1] = "resolve"

\* C16: once the constructor has returned, the attributes of the workflow
\* object never change.
C16_ConfigReadOnly ==
    [][\A p \in Procs :
          pc[p] \notin {"NOT_STARTED", "START"} => cfg'[p] = cfg[p]]_vars

C16_Witness ==
    /\ pc[Parent] = "EXITED"
    /\ exitCode[Parent] = 0
    /\ "_train_once" \in calls[Parent]
    /\ targs[Parent] # NoArgs
    /\ cfg[Parent] = Attributes([n \in DOMAIN env[Parent] \ {"CUDA_VISIBLE_DEVICES"} |-> env[Parent][n]])

\* C17: the arguments handed to the trainer have max_steps, save_steps, batch
\* size, learning rate, weight decay and warmup ratio all positive.
C17_PositiveNumerics ==
    \A p \in Procs :
        targs[p] # NoArgs =>
            /\ targs[p].max_steps > 0
            /\ targs[p].save_steps > 0
            /\ targs[p].per_device_train_batch_size > 0
            /\ targs[p].learning_rate > 0
            /\ targs[p].weight_decay > 0
            /\ targs[p].warmup_ratio > 0

\* C18: the training arguments a process builds have seed 42 and carry the
\* output directory, batch size, learning rate, weight decay, warmup ratio,
\* max_steps, save_steps and reporting sink of its workflow object unchanged;
\* two processes with equal workflow objects build equal arguments.
C18_ParametersFromConfig ==
    /\ \A p \in Procs :
          targs[p] # NoArgs =>
              /\ targs[p].seed = 42
              /\ targs[p].output_dir = cfg[p].output_dir
              /\ targs[p].per_device_train_batch_size = cfg[p].batch_size
              /\ targs[p].learning_rate = cfg[p].learning_rate
              /\ targs[p].weight_decay = cfg[p].weight_decay
              /\ targs[p].warmup_ratio = cfg[p].warmup_ratio
              /\ targs[p].max_steps = cfg[p].max_steps
              /\ targs[p].save_steps = cfg[p].save_steps
              /\ targs[p].report_to = cfg[p].report_to
    /\ \A p, q \in Procs :
          (targs[p] # NoArgs /\ targs[q] # NoArgs /\ cfg[p] = cfg[q]) => targs[p] = targs[q]

C18_Witness ==
    \E p, q \in Workers :
        /\ p # q
        /\ targs[p] # NoArgs /\ targs[q] # NoArgs
        /\ cfg[p] = cfg[q]
        /\ cfg[p].max_steps = 100
        /\ cfg[p].learning_rate # cfg[p].weight_decay
        /\ targs[p].seed = 42

KnownDataConfigs ==
    {"so100_dualcam", "fourier_gr1_arms_only", "fourier_gr1_arms_waist",
     "agibot_genie1_dualcam", "oxe_droid_single_cam"}

KnownEmbodimentTags == {"new_embodiment", "gr1", "oxe_droid", "agibot_genie1"}

\* the value the constructor finds for an environment variable
EnvOr(p, name, default) == IF name \in DOMAIN env[p] THEN env[p][name] ELSE default

WarnedAbout(p, value) ==
    \E i \in 1..Len(log[p]) : log[p][i] = [level |-> "WARNING", msg |-> log[p][i].msg, arg |-> value]

\* C19: when the required variable is set and the numeric variables convert,
\* the constructor succeeds whatever DATA_CONFIG and EMBODIMENT_TAG are: the
\* object carries their values, and a value outside the known set is logged
\* in a warning.
C19_UnknownAccepted ==
    \A p \in Procs :
        (JustConstructed(p) /\ BadNumeric(env[p]) = <<>> /\ MissingRequired(env[p]) = {}) =>
            /\ pc[p] = "RESOLVED"
            /\ raised[p] = NoExc
            /\ cfg[p].data_config = EnvOr(p, "DATA_CONFIG", "so100_dualcam")
            /\ cfg[p].embodiment_tag = EnvOr(p, "EMBODIMENT_TAG", "new_embodiment")
            /\ cfg[p].data_config \notin KnownDataConfigs => WarnedAbout(p, cfg[p].data_config)
            /\ cfg[p].embodiment_tag \notin KnownEmbodimentTags => WarnedAbout(p, cfg[p].embodiment_tag)

C19_Witness ==
    /\ JustConstructed(Parent)
    /\ pc[Parent] = "RESOLVED"
    /\ cfg[Parent].data_config = "my_robot"
    /\ cfg[Parent].embodiment_tag = "my_tag"
    /\ WarnedAbout(Parent, "my_robot")
    /\ WarnedAbout(Parent, "my_tag")

\* C20: no process both calls torchrun and trains in-process; a process that
\* has called torchrun builds no training arguments, and once torchrun has
\* ended the process has exited.
C20_LaunchOrTrain ==
    \A p \in Procs :
        /\ ~({"torchrun", "_train_once"} \subseteq calls[p])
        /\ "torchrun" \in calls[p] => (targs[p] = NoArgs /\ pc[p] \in {"LAUNCHED", "EXITED"})
        /\ launcher[p].state = "ended" => pc[p] = "EXITED"

C20_Witness ==
    /\ launcher[Parent].state = "ended"
    /\ launcher[Parent].outcome.kind = "return"
    /\ launcher[Parent].started # {}
    /\ pc[Parent] = "EXITED"
    /\ exitCode[Parent] = 0
    /\ calls[Parent] = {"torchrun"}

\* C21: the model a process hands to the trainer is wrapped by get_lora_model
\* exactly when lora_rank > 0, then with rank, alpha and dropout of the object
\* and restricted to the action head exactly when lora_full_model is false;
\* for lora_rank <= 0 it is the loaded model, unwrapped.
C21_LoraIffRankPositive ==
    \A p \in Procs :
        model[p].loaded =>
            /\ model[p].lora <=> cfg[p].lora_rank > 0
            /\ model[p].lora =>
                  /\ model[p].rank = cfg[p].lora_rank
                  /\ model[p].lora_alpha = cfg[p].lora_alpha
                  /\ model[p].lora_dropout = cfg[p].lora_dropout
                  /\ model[p].action_head_only <=> ~cfg[p].lora_full_model
                  /\ ~model[p].base.lora

C21_Witness ==
    /\ pc[Parent] = "PARAMS_BUILT"
    /\ model[Parent].loaded
    /\ model[Parent].lora
    /\ cfg[Parent].lora_rank = 4
    /\ cfg[Parent].lora_full_model
    /\ ~model[Parent].action_head_only

\* the fields of the object whose defaults are documented
DocumentedFields ==
    {"output_dir", "max_steps", "save_steps", "num_gpus", "data_config", "embodiment_tag",
     "tune_llm", "tune_visual", "tune_projector", "tune_diffusion_model", "lora_rank",
     "lora_alpha", "lora_dropout", "lora_full_model", "resume"}

\* the documented defaults (lora_dropout 0.1 in units of 1e-5)
DocumentedDefault(f) ==
    CASE f = "output_dir" -> "/workspace/checkpoints"
      [] f = "max_steps" -> 6000
      [] f = "save_steps" -> 2000
      [] f = "num_gpus" -> 1
      [] f = "data_config" -> "so100_dualcam"
      [] f = "embodiment_tag" -> "new_embodiment"
      [] f = "tune_llm" -> FALSE
      [] f = "tune_visual" -> FALSE
      [] f = "tune_projector" -> TRUE
      [] f = "tune_diffusion_model" -> TRUE
      [] f = "lora_rank" -> 0
      [] f = "lora_alpha" -> 16
      [] f = "lora_dropout" -> 10000
      [] f = "lora_full_model" -> FALSE
      [] f = "resume" -> FALSE

\* the environment variable a field is read from
VariableOf(f) ==
    CASE f = "output_dir" -> "OUTPUT_DIR"
      [] f = "max_steps" -> "MAX_STEPS"
      [] f = "save_steps" -> "SAVE_STEPS"
      [] f = "num_gpus" -> "NUM_GPUS"
      [] f = "data_config" -> "DATA_CONFIG"
      [] f = "embodiment_tag" -> "EMBODIMENT_TAG"
      [] f = "tune_llm" -> "TUNE_LLM"
      [] f = "tune_visual" -> "TUNE_VISUAL"
      [] f = "tune_projector" -> "TUNE_PROJECTOR"
      [] f = "tune_diffusion_model" -> "TUNE_DIFFUSION_MODEL"
      [] f = "lora_rank" -> "LORA_RANK"
      [] f = "lora_alpha" -> "LORA_ALPHA"
      [] f = "lora_dropout" -> "LORA_DROPOUT"
      [] f = "lora_full_model" -> "LORA_FULL_MODEL"
      [] f = "resume" -> "RESUME"

\* the value a string of the environment stands for
ValueOf(s) ==
    CASE s = "100" -> 100
      [] s = "2" -> 2
      [] s = "4" -> 4
      [] s = "-1" -> -1
      [] s = "32" -> 32
      [] s = "0.05" -> 5000
      [] s \in {"true", "True"} -> TRUE
      [] s \in {"false", "FALSE"} -> FALSE
      [] OTHER -> s

\* C22: after the constructor, every documented field whose variable is unset
\* holds its documented default, and every field whose variable is set holds
\* the value of that variable, whatever other variables are set.
C22_DefaultsAndOverrides ==
    \A p \in Procs :
        JustConstructed(p) =>
            /\ pc[p] = "RESOLVED"
            /\ \A f \in DocumentedFields :
                  cfg[p][f] = IF VariableOf(f) \in DOMAIN env[p]
                              THEN ValueOf(env[p][VariableOf(f)])
                              ELSE DocumentedDefault(f)

C22_Witness ==
    /\ JustConstructed(Parent)
    /\ DOMAIN env[Parent] = {"DATASET_LOCAL_DIR", "MAX_STEPS", "TUNE_VISUAL"}
    /\ cfg[Parent].max_steps = 100
    /\ cfg[Parent].tune_visual
    /\ cfg[Parent].save_steps = 2000
    /\ cfg[Parent].tune_projector

\* the positions from the branch of run_training to the end of training or launch
PastPlan == {"DIRECT", "LOADED", "PARAMS_BUILT", "SPAWN", "LAUNCHED"}

\* C23: a process that trains in-process or calls torchrun has its output
\* directory present as a directory; the output directory changes only in a
\* run_training step, from absent to an empty directory, so an existing one
\* is left as it is and a process whose validate_dataset fails creates none.
C23_OutputDirCreated ==
    [][/\ \A p \in Procs :
             pc'[p] \in PastPlan =>
                 cfg'[p].output_dir \in Paths /\ fs'[cfg'[p].output_dir] = Dir
       /\ fs'[DefaultOutputDir] # fs[DefaultOutputDir] =>
             /\ fs[DefaultOutputDir] = Absent
             /\ fs'[DefaultOutputDir] = Dir
             /\ \E p \in Procs : PlanStep(p) /\ cfg[p].output_dir = DefaultOutputDir
       /\ \A p \in Procs :
             (ValidateStep(p) /\ pc'[p] = "EXITED") => fs'[DefaultOutputDir] = fs[DefaultOutputDir]]_vars

C23_Witness ==
    /\ pc[Parent] = "DIRECT"
    /\ fs[DefaultOutputDir] = Dir
    /\ \E i \in 1..Len(writes) : writes[i] = <<Parent, "run_training", DefaultOutputDir>>

\* CUDA_VISIBLE_DEVICES in an environment, None when unset
Devices(e) == IF "CUDA_VISIBLE_DEVICES" \in DOMAIN e THEN e["CUDA_VISIBLE_DEVICES"] ELSE None

\* a process goes on to train in-process with num_gpus = 1
SingleStep(p) == PlanStep(p) /\ pc'[p] = "DIRECT" /\ cfg[p].num_gpus = 1

\* a worker is started by torchrun
WorkerStarts(p) == pc[p] = "NOT_STARTED" /\ pc'[p] # "NOT_STARTED"

\* C24 as stated: CUDA_VISIBLE_DEVICES is "0" when training in-process with
\* num_gpus = 1, is unset when torchrun is called and in every worker it
\* starts, and is left unchanged by every process that finds IS_TORCHRUN=1.
C24_Original ==
    [][\A p \in Procs :
          /\ SingleStep(p) => Devices(env'[p]) = "0"
          /\ pc'[p] \in {"SPAWN", "LAUNCHED"} => Devices(env'[p]) = None
          /\ WorkerStarts(p) => Devices(env'[p]) = None
          /\ (PlanStep(p) /\ MarkerSet(p)) => Devices(env'[p]) = Devices(env[p])]_vars

\* C24: CUDA_VISIBLE_DEVICES is "0" when training in-process with
\* num_gpus = 1, whether or not IS_TORCHRUN=1; it is unset when torchrun is
\* called and in every worker it starts; a process that finds IS_TORCHRUN=1
\* and has num_gpus other than 1 leaves it unchanged.
C24_DeviceVisibility ==
    [][\A p \in Procs :
          /\ SingleStep(p) => Devices(env'[p]) = "0"
          /\ pc'[p] \in {"SPAWN", "LAUNCHED"} => Devices(env'[p]) = None
          /\ WorkerStarts(p) => Devices(env'[p]) = None
          /\ (PlanStep(p) /\ MarkerSet(p) /\ cfg[p].num_gpus # 1) =>
                Devices(env'[p]) = Devices(env[p])]_vars

C24_Witness ==
    /\ pc[Parent] = "LAUNCHED"
    /\ Devices(env[Parent]) = None
    /\ \E i \in 1..Len(steps[Parent]) : steps[Parent][i] = "plan_execution"
    /\ <<"plan_execution", "CUDA_VISIBLE_DEVICES">> \in reads[Parent]
    /\ launcher[Parent].started # {}
    /\ \A w \in launcher[Parent].started : Devices(env[w]) = None /\ pc[w] = "DIRECT"

\* the positions in writes at which meta/modality.json is written
ModalityWrites == {i \in 1..Len(writes) : writes[i][3] = ModalityJson}

\* C25: no worker writes meta/modality.json: the file is written at most once,
\* by the parent, and when the data_config needs it the file is there before
\* any worker starts, whatever the order in which the workers run.
C25_OnlyParentWrites ==
    /\ \A i \in ModalityWrites : writes[i][1] = Parent
    /\ Cardinality(ModalityWrites) <= 1
    /\ \A w \in Workers :
          (pc[w] # "NOT_STARTED" /\ cfg[Parent].data_config = "so100_dualcam") =>
              fs[ModalityJson].kind = "file"

C25_Witness ==
    /\ ModalityWrites # {}
    /\ Cardinality({w \in Workers : pc[w] = "DATASET_READY"}) = 2
    /\ pc[Parent] = "LAUNCHED"

\* an input of the app was not given
NotGiven(key) == Falsy(cdk.ctx[key])

\* C26: in the BatchStack, AmazonS3ReadOnlyAccess is attached to the job role
\* exactly when neither dataset_bucket nor s3_upload_uri is given.
C26_FallbackIffBothAbsent ==
    cdk.batch_stack.built =>
        ("AmazonS3ReadOnlyAccess" \in cdk.batch_stack.managed_policies
            <=> (NotGiven("dataset_bucket") /\ NotGiven("s3_upload_uri")))

\* C27: when the DcvStack mounts an EFS, its file system id and security group
\* id are the pair of the BatchStack.
C27_SharedEfsPair ==
    (cdk.dcv_stack.built /\ cdk.dcv_stack.efs_mounted) =>
        /\ cdk.dcv_stack.efs_id = cdk.batch_stack.efs_id
        /\ cdk.dcv_stack.efs_sg_id = cdk.batch_stack.efs_sg_id

\* a statement of the job role that allows writing objects
WriteStatements ==
    {st \in cdk.batch_stack.statements : "s3:PutObject" \in st.actions}

\* C28: when the container environment of the BatchStack has UPLOAD_TARGET=s3
\* and S3_UPLOAD_URI, the job role has a statement that lets it list a bucket
\* and one that lets it get, put and delete objects.
C28_UploadGranted ==
    (cdk.batch_stack.built
       /\ "S3_UPLOAD_URI" \in DOMAIN cdk.batch_stack.container_environment
       /\ cdk.batch_stack.container_environment["UPLOAD_TARGET"] = <<"s3">>) =>
        /\ WriteStatements # {}
        /\ \E st \in cdk.batch_stack.statements :
              st.actions \cap {"s3:ListBucket", "s3:List*"} # {}

====
